---- MODULE Spec2Model ----
(***************************************************************************)
(* A model of the common-decoders library (cmmn-codes/decoders).           *)
(*                                                                         *)
(* JavaScript values are records of one shape, so that any two of them can *)
(* be compared.  A decoder is a function of the library; here it is a      *)
(* record naming the constructor and its arguments, and Decode applies it. *)
(* Every combinator is modelled together with the list of sub-decoder      *)
(* invocations it makes (what a jest spy on each sub-decoder would see).   *)
(***************************************************************************)
EXTENDS Integers, Sequences, FiniteSets, TLC

(***************************************************************************)
(* Bounds of the checked universe.                                         *)
(***************************************************************************)
\* longest list of Results / longest input array
MaxLen == 3
\* most fields in an object decoder's mapping
MaxFields == 2
\* most decoders in a union / intersection list
MaxDecoders == 2

(***************************************************************************)
(* JavaScript values.                                                      *)
(*   t     the kind: typeof, with null and arrays told apart; "hole" is    *)
(*         the empty slot of a sparse array (not a value)                  *)
(*   n, s  the payload of a number / of a string or boolean                *)
(*   elems the slots of an array, in index order                           *)
(*   props the own enumerable properties of an object                      *)
(*   cls   the class Object.prototype.toString reports                     *)
(*   at    which container it is: the place of a container that exists     *)
(*         before the call (<<"input">>, <<"input", "a">>, ...), <<>> for  *)
(*         a container allocated during the call and for what is not a     *)
(*         container                                                       *)
(***************************************************************************)
NoProps == <<>>

Val(t, n, s, elems, props, cls) ==
    [t |-> t, n |-> n, s |-> s, elems |-> elems, props |-> props, cls |-> cls,
     at |-> <<>>]

Num(i) == Val("number", i, "", <<>>, NoProps, "Number")
NaN == Val("number", 0, "NaN", <<>>, NoProps, "Number")
Str(s) == Val("string", 0, s, <<>>, NoProps, "String")
Bool(b) == Val("boolean", 0, IF b THEN "true" ELSE "false", <<>>, NoProps, "Boolean")
BigInt(i) == Val("bigint", i, "", <<>>, NoProps, "BigInt")
Undef == Val("undefined", 0, "", <<>>, NoProps, "Undefined")
Null == Val("null", 0, "", <<>>, NoProps, "Null")
Hole == Val("hole", 0, "", <<>>, NoProps, "")
Arr(elems) == Val("array", 0, "", elems, NoProps, "Array")
Obj(props) == Val("object", 0, "", <<>>, props, "Object")
\* a Date whose local hour is h, carrying the own properties props
DateObj(h, props) == Val("object", h, "", <<>>, props, "Date")

TypeOf(v) == IF v.t \in {"null", "array"} THEN "object" ELSE v.t
IsArray(v) == v.t = "array"
IsNullish(v) == v.t \in {"null", "undefined"}
IsHole(x) == x = Hole

Keys(v) == DOMAIN v.props
Get(v, k) == v.props[k]
\* obj[key] = val
SetProp(obj, key, val) ==
    [obj EXCEPT !.props = [k \in (DOMAIN @) \cup {key} |->
                              IF k = key THEN val ELSE @[k]]]
\* arr.push(b)
Push(arr, b) == [arr EXCEPT !.elems = Append(@, b)]

(***************************************************************************)
(* result.ts                                                               *)
(***************************************************************************)
ok(v) == [type |-> "ok", ok |-> v]
failure(e) == [type |-> "failure", failure |-> e]
isOk(r) == r.type = "ok"
isFailure(r) == r.type = "failure"
\* a call that ends with an exception returns no Result
Thrown(error) == [type |-> "throw", error |-> error]

(***************************************************************************)
(* The functions the program passes around (callbacks and decoders) are    *)
(* records naming the function and what it captured; Apply(f, x) is f(x).  *)
(***************************************************************************)
RECURSIVE Apply(_, _)
RECURSIVE Decode(_, _)

\* (b) => { a.push(b); return a; }
PushInto(a) == [fn |-> "PushInto", a |-> a]
\* (a) => pipe(v, map((b) => { a.push(b); return a; }))
SequenceStep(v) == [fn |-> "SequenceStep", v |-> v]
\* the decoder itself, given as the function to map over an array
DecodeWith(decoder) == [fn |-> "DecodeWith", decoder |-> decoder]
\* (decoder) => decoder(input)
ApplyTo(input) == [fn |-> "ApplyTo", input |-> input]
\* filterIntersection(input)
FilterWith(input) == [fn |-> "FilterWith", input |-> input]
\* (v) => { decodedValue[key] = v; return decodedValue; }
SetField(decodedValue, key) == [fn |-> "SetField", decodedValue |-> decodedValue, key |-> key]
\* (decodedValue) => { const inputValue = ...; return pipe(inputValue, decoder, map(...)); }
DecodeField(v, key, decoder) == [fn |-> "DecodeField", v |-> v, key |-> key, decoder |-> decoder]

map(f, v) == IF isOk(v) THEN ok(Apply(f, v.ok)) ELSE v
chain(f, v) == IF isOk(v) THEN Apply(f, v.ok) ELSE v

\* a.reduce(step, ok([])): reduce visits the slots in index order and skips
\* the empty slots of a sparse array
RECURSIVE sequenceFrom(_, _, _)
sequenceFrom(a, i, acc) ==
    IF i > Len(a) THEN acc
    ELSE IF IsHole(a[i]) THEN sequenceFrom(a, i + 1, acc)
    ELSE sequenceFrom(a, i + 1,
            chain(SequenceStep(a[i]), acc))

\* a slip: a later Failure replaces the one already held
RECURSIVE sequenceLastFrom(_, _, _)
sequenceLastFrom(a, i, acc) ==
    IF i > Len(a) THEN acc
    ELSE IF IsHole(a[i]) THEN sequenceLastFrom(a, i + 1, acc)
    ELSE sequenceLastFrom(a, i + 1,
            IF isFailure(a[i]) THEN a[i]
            ELSE chain(SequenceStep(a[i]), acc))

sequenceLastFailure(a) == sequenceLastFrom(a, 1, ok(Arr(<<>>)))

sequence(a) == sequenceFrom(a, 1, ok(Arr(<<>>)))

\* a.map(fn): map leaves the empty slots of a sparse array empty
arrayMap(fn, a) ==
    [i \in 1..Len(a) |-> IF IsHole(a[i]) THEN Hole ELSE Apply(fn, a[i])]

(***************************************************************************)
(* Decoders as data.                                                       *)
(***************************************************************************)
Dec(t, lit, keys, sub) == [t |-> t, lit |-> lit, keys |-> keys, sub |-> sub]
StringD == Dec("string", Undef, <<>>, <<>>)
NumberD == Dec("number", Undef, <<>>, <<>>)
BooleanD == Dec("boolean", Undef, <<>>, <<>>)
LiteralD(value) == Dec("literal", value, <<>>, <<>>)
OptionalD(d) == Dec("optional", Undef, <<>>, <<d>>)
NullableD(d) == Dec("nullable", Undef, <<>>, <<d>>)
ArrayD(d) == Dec("array", Undef, <<>>, <<d>>)
UnionD(ds) == Dec("union", Undef, <<>>, ds)
IntersectionD(ds) == Dec("intersection", Undef, <<>>, ds)
\* enumValue(e): the enum object e and its member names as declared
EnumD(e, names) == Dec("enum", e, names, <<>>)
\* object({k1: d1, k2: d2, ...}): the keys and their decoders as written
ObjectD(keys, ds) == Dec("object", Undef, keys, ds)

(***************************************************************************)
(* decoders.ts: primitive decoders                                         *)
(***************************************************************************)
\* a slip: isNaN(v) || typeof v !== 'number'; isNaN converts its argument
\* to a number, which throws for a big integer
numberNaNFirst(v) ==
    IF v.t = "bigint" THEN Thrown("TypeError")
    ELSE IF TypeOf(v) # "number" \/ v.s = "NaN" THEN failure("Not a number") ELSE ok(v)

number(v) ==
    IF TypeOf(v) # "number" \/ v.s = "NaN" THEN failure("Not a number") ELSE ok(v)

string(v) ==
    IF TypeOf(v) # "string" THEN failure("Not a string") ELSE ok(v)

boolean(v) ==
    IF v = Bool(FALSE) \/ v = Bool(TRUE) THEN ok(v) ELSE failure("Not a boolean")

\* the digits of a small number, "NaN" for NaN
NumberToString(v) ==
    IF v.s = "NaN" THEN "NaN"
    ELSE CASE v.n = 0 -> "0" [] v.n = 1 -> "1" [] v.n = 2 -> "2"
           [] v.n = 3 -> "3" [] v.n = 4 -> "4" [] OTHER -> "other"

\* a === b on numbers and strings: the same type and the same value, and
\* NaN equal to nothing
StrictEquals(a, b) == a = b /\ a # NaN

\* a == b on numbers, strings, null and undefined: a number and a string
\* are compared as numbers
LooseEquals(a, b) ==
    LET ToNumber(x) == IF TypeOf(x) = "number" THEN NumberToString(x)
                       ELSE IF x.s \in {"", " "} THEN "0"
                       ELSE IF x.s \in {"0", "1", "2", "3", "4"} THEN x.s ELSE "NaN"
    IN IF TypeOf(a) = TypeOf(b) THEN StrictEquals(a, b)
       ELSE IF {TypeOf(a), TypeOf(b)} = {"number", "string"}
       THEN ToNumber(a) = ToNumber(b) /\ ToNumber(a) # "NaN"
       ELSE IsNullish(a) /\ IsNullish(b)

\* a slip: == for ===
literalLoose(value, v) ==
    IF /\ TypeOf(v) = "number" \/ TypeOf(v) = "string"
       /\ LooseEquals(value, v)
    THEN ok(value)
    ELSE failure("Does not match literal value")

literal(value, v) ==
    IF /\ TypeOf(v) = "number" \/ TypeOf(v) = "string"
       /\ StrictEquals(value, v)
    THEN ok(value)
    ELSE failure("Does not match literal value")

(***************************************************************************)
(* The decoders of the test suite's compose pipeline (a date with an even  *)
(* hour).  A date-like string is modelled by the local hour it denotes.    *)
(***************************************************************************)
DateD == Dec("date", Undef, <<>>, <<>>)
HoursD == Dec("hours", Undef, <<>>, <<>>)
EvenD == Dec("even", Undef, <<>>, <<>>)
ComposeD(ds) == Dec("compose", Undef, <<>>, ds)

\* the local hour of new Date(s), or -1 when new Date(s) is an invalid date
ParseHour(s) == CASE s = "d10" -> 10 [] s = "d11" -> 11 [] OTHER -> -1

\* its input type is string: the pipelines checked give it strings only
dateDecoder(i) ==
    IF TypeOf(i) = "string" /\ ParseHour(i.s) >= 0
    THEN ok(DateObj(ParseHour(i.s), NoProps))
    ELSE failure("Not a date like object")

hoursDecoder(i) == ok(Num(i.n))

evenNumberDecoder(i) ==
    IF i.s # "NaN" /\ i.n % 2 = 0 THEN ok(i) ELSE failure("Uneven number")

(***************************************************************************)
(* decoders.ts: combinators.  decoder(value) is Decode(decoder, value).    *)
(* The ...Run operators return the Result together with the invocations of *)
(* the sub-decoders, in the order they are made.                           *)
(***************************************************************************)
Run(result, calls) == [result |-> result, calls |-> calls]

\* map(f)(v) and chain(f)(v): f is invoked, with v.ok, in the branch of
\* isOk(v) only
mapRun(f, v) ==
    Run(map(f, v), IF isOk(v) THEN <<[idx |-> 1, v |-> v.ok]>> ELSE <<>>)

\* a slip: chain wraps what f returns, as map does
chainRunWrapping(f, v) ==
    Run(IF isOk(v) THEN ok(Apply(f, v.ok)) ELSE v,
        IF isOk(v) THEN <<[idx |-> 1, v |-> v.ok]>> ELSE <<>>)

chainRun(f, v) ==
    Run(chain(f, v), IF isOk(v) THEN <<[idx |-> 1, v |-> v.ok]>> ELSE <<>>)

\* a slip: value == undefined, which null satisfies too
optionalRunLoose(decoder, value) ==
    IF IsNullish(value) THEN Run(ok(Undef), <<>>)
    ELSE Run(Decode(decoder, value), <<[idx |-> 1, v |-> value]>>)

optionalRun(decoder, value) ==
    IF value = Undef THEN Run(ok(Undef), <<>>)
    ELSE Run(Decode(decoder, value), <<[idx |-> 1, v |-> value]>>)

optional(decoder, value) == optionalRun(decoder, value).result

\* a slip: value == null, which undefined satisfies too
nullableRunLoose(decoder, value) ==
    IF IsNullish(value) THEN Run(ok(Null), <<>>)
    ELSE Run(Decode(decoder, value), <<[idx |-> 1, v |-> value]>>)

\* nullable, as the specification describes it: null is Ok(null), anything
\* else is the wrapped decoder's business
nullableRun(decoder, value) ==
    IF value = Null THEN Run(ok(Null), <<>>)
    ELSE Run(Decode(decoder, value), <<[idx |-> 1, v |-> value]>>)

nullable(decoder, value) == nullableRun(decoder, value).result

\* for (const decoder of decoders) { ...; if (isOk(result)) return result; }
RECURSIVE unionFrom(_, _, _, _)
unionFrom(decoders, i, input, calls) ==
    IF i > Len(decoders) THEN Run(failure("Value is not one of type"), calls)
    ELSE LET result == Decode(decoders[i], input)
             called == Append(calls, [idx |-> i, v |-> input])
         IN IF isOk(result) THEN Run(result, called)
            ELSE unionFrom(decoders, i + 1, input, called)

\* a slip: the loop goes on after a success, and the last success is returned
RECURSIVE unionLastFrom(_, _, _, _, _)
unionLastFrom(decoders, i, input, calls, best) ==
    IF i > Len(decoders) THEN Run(best, calls)
    ELSE LET result == Decode(decoders[i], input)
         IN unionLastFrom(decoders, i + 1, input,
                Append(calls, [idx |-> i, v |-> input]),
                IF isOk(result) THEN result ELSE best)

unionRunLast(decoders, input) ==
    unionLastFrom(decoders, 1, input, <<>>, failure("Value is not one of type"))

unionRun(decoders, input) == unionFrom(decoders, 1, input, <<>>)

union(decoders, input) == unionRun(decoders, input).result

\* Object.prototype.toString.call(v) === '[object Object]'
isObject(v) == v.cls = "Object"

isPrimitive(v) == TypeOf(v) = "number" \/ TypeOf(v) = "string" \/ v = Undef

hasOwnProperty(obj, prop) == prop \in DOMAIN obj.props

\* a slip: r[k] = v[k], the value the branch decoded
RECURSIVE filterFromDecoded(_, _, _, _)
filterFromDecoded(input, values, i, r) ==
    IF i > Len(values) THEN r
    ELSE LET v == values[i]
         IN IF ~isObject(v) THEN filterFromDecoded(input, values, i + 1, r)
            ELSE filterFromDecoded(input, values, i + 1,
                    [r EXCEPT !.props =
                        [k \in (DOMAIN @) \cup {j \in Keys(v) : hasOwnProperty(input, j)}
                            |-> IF k \in Keys(v) THEN Get(v, k) ELSE @[k]]])

\* for (const v of values) { if (!isObject(v)) continue;
\*   for (const k in v) if (hasOwnProperty(input, k)) r[k] = input[k]; }
RECURSIVE filterFrom(_, _, _, _)
filterFrom(input, values, i, r) ==
    IF i > Len(values) THEN r
    ELSE LET v == values[i]
         IN IF ~isObject(v) THEN filterFrom(input, values, i + 1, r)
            ELSE filterFrom(input, values, i + 1,
                    [r EXCEPT !.props =
                        [k \in (DOMAIN @) \cup {j \in Keys(v) : hasOwnProperty(input, j)}
                            |-> Get(input, k)]])

filterIntersection(input, values) ==
    IF isPrimitive(input) THEN input
    ELSE IF IsArray(input) THEN input
    ELSE IF ~isObject(input) THEN input
    ELSE filterFrom(input, values.elems, 1, Obj(NoProps))

\* pipe(decoders, arrayMap((decoder) => decoder(input)), sequence,
\*      map(filterIntersection(input)))
\* a slip: the decoders after the first failing one are not run
RECURSIVE intersectionShortFrom(_, _, _, _)
intersectionShortFrom(decoders, i, input, acc) ==
    IF i > Len(decoders) \/ (acc # <<>> /\ isFailure(acc[Len(acc)])) THEN acc
    ELSE intersectionShortFrom(decoders, i + 1, input,
            Append(acc, Decode(decoders[i], input)))

intersectionRunShort(decoders, input) ==
    LET results == intersectionShortFrom(decoders, 1, input, <<>>)
    IN Run(map(FilterWith(input), sequence(results)),
           [i \in 1..Len(results) |-> [idx |-> i, v |-> input]])

intersectionRun(decoders, input) ==
    Run(map(FilterWith(input), sequence(arrayMap(ApplyTo(input), decoders))),
        [i \in 1..Len(decoders) |-> [idx |-> i, v |-> input]])

intersection(decoders, input) == intersectionRun(decoders, input).result

(***************************************************************************)
(* Object.entries(o): the own enumerable string-keyed properties of o, the *)
(* integer-like keys first in ascending numeric order, then the other keys *)
(* in the order they were written.                                         *)
(***************************************************************************)
\* the number an integer-like key denotes, -1 for any other key
KeyIndex(k) == CASE k = "0" -> 0 [] k = "1" -> 1 [] k = "2" -> 2 [] OTHER -> -1
IsIndexKey(k) == KeyIndex(k) >= 0

RECURSIVE AscendingIndexKeys(_)
AscendingIndexKeys(S) ==
    IF S = {} THEN <<>>
    ELSE LET m == CHOOSE k \in S : \A j \in S : KeyIndex(k) <= KeyIndex(j)
         IN <<m>> \o AscendingIndexKeys(S \ {m})

Range(q) == {q[i] : i \in 1..Len(q)}
PositionOf(q, x) == CHOOSE i \in 1..Len(q) : q[i] = x

\* a slip: the fields are taken in the order they were written
ObjectEntriesAsWritten(o) ==
    [i \in 1..Len(o.keys) |-> [key |-> o.keys[i], decoder |-> o.sub[i]]]

ObjectEntries(o) ==
    LET IsOther(k) == ~IsIndexKey(k)
        order == AscendingIndexKeys({k \in Range(o.keys) : IsIndexKey(k)})
                    \o SelectSeq(o.keys, IsOther)
    IN [i \in 1..Len(order) |->
            [key |-> order[i], decoder |-> o.sub[PositionOf(o.keys, order[i])]]]

\* the body of the loop over Object.entries(o): the callback given to chain
\* runs, and invokes the field's decoder, only when result is Ok
\* a slip: the Failure of a field is replaced by one of the object's own
objectStepOwnMessage(v, key, decoder, result) ==
    LET r == chain(DecodeField(v, key, decoder), result)
    IN IF isFailure(r) THEN failure("Invalid field") ELSE r

\* a slip: if (v !== undefined) decodedValue[key] = v
objectStepSkipUndefined(v, key, decoder, result) ==
    LET r == chain(DecodeField(v, key, decoder), result)
    IN IF isOk(r) /\ Get(r.ok, key) = Undef THEN result ELSE r

objectStep(v, key, decoder, result) == chain(DecodeField(v, key, decoder), result)

\* a slip: every field's decoder is invoked before the accumulator is
\* looked at, and the loop does not stop at a Failure
RECURSIVE objectLoopEager(_, _, _, _)
objectLoopEager(entries, i, v, acc) ==
    IF i > Len(entries) THEN acc
    ELSE LET key == entries[i].key
             inputValue == IF hasOwnProperty(v, key) THEN Get(v, key) ELSE Undef
         IN objectLoopEager(entries, i + 1, v,
                Run(objectStep(v, key, entries[i].decoder, acc.result),
                    Append(acc.calls, [key |-> key, v |-> inputValue])))

RECURSIVE objectLoop(_, _, _, _)
objectLoop(entries, i, v, acc) ==
    IF i > Len(entries) THEN acc
    ELSE IF isFailure(acc.result) THEN acc
    ELSE LET key == entries[i].key
             inputValue == IF hasOwnProperty(v, key) THEN Get(v, key) ELSE Undef
         IN objectLoop(entries, i + 1, v,
                Run(objectStep(v, key, entries[i].decoder, acc.result),
                    IF isOk(acc.result)
                    THEN Append(acc.calls, [key |-> key, v |-> inputValue])
                    ELSE acc.calls))

\* a slip: the accumulator starts as a copy of the input, not as {}
objectRunNoStrip(o, v) ==
    IF TypeOf(v) # "object" THEN Run(failure("Not an object"), <<>>)
    ELSE IF IsArray(v) THEN Run(failure("Not an object"), <<>>)
    ELSE IF IsNullish(v) THEN Run(failure("Not an object"), <<>>)
    ELSE objectLoop(ObjectEntries(o), 1, v, Run(ok(Obj(v.props)), <<>>))

\* a slip: the Array.isArray check is missing
objectRunNoArrayCheck(o, v) ==
    IF TypeOf(v) # "object" THEN Run(failure("Not an object"), <<>>)
    ELSE IF IsNullish(v) THEN Run(failure("Not an object"), <<>>)
    ELSE objectLoop(ObjectEntries(o), 1, v, Run(ok(Obj(NoProps)), <<>>))

\* a slip: let result = ok(v), the fields are written into the input
objectRunInPlace(o, v) ==
    IF TypeOf(v) # "object" THEN Run(failure("Not an object"), <<>>)
    ELSE IF IsArray(v) THEN Run(failure("Not an object"), <<>>)
    ELSE IF IsNullish(v) THEN Run(failure("Not an object"), <<>>)
    ELSE objectLoop(ObjectEntries(o), 1, v, Run(ok(v), <<>>))

objectRun(o, v) ==
    IF TypeOf(v) # "object" THEN Run(failure("Not an object"), <<>>)
    ELSE IF IsArray(v) THEN Run(failure("Not an object"), <<>>)
    ELSE IF IsNullish(v) THEN Run(failure("Not an object"), <<>>)
    ELSE objectLoop(ObjectEntries(o), 1, v, Run(ok(Obj(NoProps)), <<>>))

object(o, v) == objectRun(o, v).result

\* a slip: the elements that fail to decode are left out of the result
arrayRunPartial(decoder, v) ==
    IF IsArray(v)
    THEN LET results == arrayMap(DecodeWith(decoder), v.elems)
             Visited(i) == ~IsHole(v.elems[i])
             idx == SelectSeq([i \in 1..Len(v.elems) |-> i], Visited)
         IN Run(sequence(SelectSeq(results, isOk)),
                [j \in 1..Len(idx) |-> [idx |-> idx[j], v |-> v.elems[idx[j]]]])
    ELSE Run(failure("Not an array"), <<>>)

\* the decoder is invoked on the slots map visits: every slot but the holes
arrayRun(decoder, v) ==
    IF IsArray(v)
    THEN Run(sequence(arrayMap(DecodeWith(decoder), v.elems)),
             LET Visited(i) == ~IsHole(v.elems[i])
                 idx == SelectSeq([i \in 1..Len(v.elems) |-> i], Visited)
             IN [j \in 1..Len(idx) |-> [idx |-> idx[j], v |-> v.elems[idx[j]]]])
    ELSE Run(failure("Not an array"), <<>>)

array(decoder, v) == arrayRun(decoder, v).result

(***************************************************************************)
(* enumValue                                                               *)
(***************************************************************************)
\* the property key a number or a string denotes in o[k]
PropertyKey(k) == IF TypeOf(k) = "string" THEN k.s ELSE NumberToString(k)

\* o[k], for an object without inherited properties of that name
Index(o, k) == IF PropertyKey(k) \in Keys(o) THEN Get(o, PropertyKey(k)) ELSE Undef

\* the object an enum declaration compiles to: every member name maps to
\* its value, and the value of every numeric member maps back to its name
\* (the last such member's, when two members share a value)
EnumObject(names, vals) ==
    LET n == Len(names)
        Numeric == {i \in 1..n : TypeOf(vals[i]) = "number"}
        Reverse == {PropertyKey(vals[i]) : i \in Numeric}
        Last(k) == CHOOSE i \in Numeric :
                      /\ PropertyKey(vals[i]) = k
                      /\ \A j \in Numeric : PropertyKey(vals[j]) = k => j <= i
    IN Obj([k \in Range(names) \cup Reverse |->
              IF k \in Range(names) THEN vals[PositionOf(names, k)]
              ELSE Str(names[Last(k)])])

enumValue(e, v) ==
    IF TypeOf(v) # "number" /\ TypeOf(v) # "string" THEN failure("Not an enum value")
    ELSE LET value == Index(e, v)
         IN IF IsNullish(value) THEN failure("Not an enum value")
            ELSE IF TypeOf(value) = "number" THEN ok(Index(e, v))
            ELSE ok(Index(e, value))

(***************************************************************************)
(* compose(d1, ..., dn): each stage is given the Ok value of the one       *)
(* before it; the first Failure ends the pipeline.                         *)
(***************************************************************************)
RECURSIVE composeFrom(_, _, _)
composeFrom(stages, i, acc) ==
    IF i > Len(stages) THEN acc
    ELSE IF isFailure(acc.result) THEN acc
    ELSE composeFrom(stages, i + 1,
            Run(Decode(stages[i], acc.result.ok),
                Append(acc.calls, [idx |-> i, v |-> acc.result.ok])))

\* a slip: a stage is given the input of the pipeline when the stage before
\* it failed
RECURSIVE composeAllFrom(_, _, _, _)
composeAllFrom(stages, i, input, acc) ==
    IF i > Len(stages) THEN acc
    ELSE LET arg == IF isOk(acc.result) THEN acc.result.ok ELSE input
         IN composeAllFrom(stages, i + 1, input,
                Run(chain(DecodeWith(stages[i]), acc.result),
                    Append(acc.calls, [idx |-> i, v |-> arg])))

composeRunAll(stages, input) == composeAllFrom(stages, 1, input, Run(ok(input), <<>>))

composeRun(stages, input) == composeFrom(stages, 1, Run(ok(input), <<>>))

compose(stages, input) == composeRun(stages, input).result

Apply(f, x) ==
    CASE f.fn = "PushInto" -> Push(f.a, x)
      [] f.fn = "SequenceStep" -> map(PushInto(x), f.v)
      [] f.fn = "DecodeWith" -> Decode(f.decoder, x)
      [] f.fn = "ApplyTo" -> Decode(x, f.input)
      [] f.fn = "FilterWith" -> filterIntersection(f.input, x)
      [] f.fn = "SetField" -> SetProp(f.decodedValue, f.key, x)
      [] f.fn = "DecodeField" ->
            LET inputValue == IF hasOwnProperty(f.v, f.key) THEN Get(f.v, f.key) ELSE Undef
            IN map(SetField(x, f.key), Decode(f.decoder, inputValue))

Decode(d, v) ==
    CASE d.t = "string" -> string(v)
      [] d.t = "number" -> number(v)
      [] d.t = "boolean" -> boolean(v)
      [] d.t = "literal" -> literal(d.lit, v)
      [] d.t = "enum" -> enumValue(d.lit, v)
      [] d.t = "optional" -> optional(d.sub[1], v)
      [] d.t = "nullable" -> nullable(d.sub[1], v)
      [] d.t = "array" -> array(d.sub[1], v)
      [] d.t = "object" -> object(d, v)
      [] d.t = "union" -> union(d.sub, v)
      [] d.t = "intersection" -> intersection(d.sub, v)
      [] d.t = "compose" -> compose(d.sub, v)
      [] d.t = "date" -> dateDecoder(v)
      [] d.t = "hours" -> hoursDecoder(v)
      [] d.t = "even" -> evenNumberDecoder(v)

(***************************************************************************)
(* The writes of a call.  The program writes in three places:              *)
(* decodedValue[key] = v in object, a.push(b) in sequence, and r[k] =      *)
(* input[k] in filterIntersection.  Written(d, v) is the containers        *)
(* written during d(v), each as it is after the write, in the order of the *)
(* writes.                                                                 *)
(***************************************************************************)
RECURSIVE Flatten(_)
Flatten(qs) == IF qs = <<>> THEN <<>> ELSE Head(qs) \o Flatten(Tail(qs))

\* sequence(a): the accumulator after each push; the pushes are those of
\* the Ok elements before the first Failure
sequenceWritten(a) ==
    LET IsElement(x) == ~IsHole(x)
        dense == SelectSeq(a, IsElement)
        pushed == {j \in 1..Len(dense) : \A i \in 1..j : isOk(dense[i])}
    IN [j \in 1..Cardinality(pushed) |-> sequence(SubSeq(dense, 1, j)).ok]

\* filterIntersection(input)(values): r after the writes made for each
\* object among values
filterWritten(input, values) ==
    IF isPrimitive(input) \/ IsArray(input) \/ ~isObject(input) THEN <<>>
    ELSE LET Writes(j) == isObject(values[j])
                          /\ \E k \in Keys(values[j]) : hasOwnProperty(input, k)
             idx == SelectSeq([j \in 1..Len(values) |-> j], Writes)
         IN [n \in 1..Len(idx) |->
                filterIntersection(input, Arr(SubSeq(values, 1, idx[n])))]

RECURSIVE Written(_, _)
Written(d, v) ==
    CASE d.t = "optional" -> IF v = Undef THEN <<>> ELSE Written(d.sub[1], v)
      [] d.t = "nullable" -> IF v = Null THEN <<>> ELSE Written(d.sub[1], v)
      [] d.t = "union" ->
            \* the branches tried
            LET n == Len(unionRun(d.sub, v).calls)
            IN Flatten([i \in 1..n |-> Written(d.sub[i], v)])
      [] d.t = "array" ->
            IF ~IsArray(v) THEN <<>>
            ELSE LET visited == arrayRun(d.sub[1], v).calls
                 IN Flatten([j \in 1..Len(visited) |-> Written(d.sub[1], visited[j].v)])
                    \o sequenceWritten(arrayMap(DecodeWith(d.sub[1]), v.elems))
      [] d.t = "intersection" ->
            LET results == arrayMap(ApplyTo(v), d.sub)
            IN Flatten([i \in 1..Len(d.sub) |-> Written(d.sub[i], v)])
               \o sequenceWritten(results)
               \o (IF isOk(sequence(results))
                   THEN filterWritten(v, sequence(results).ok.elems) ELSE <<>>)
      [] d.t = "object" ->
            \* the fields whose decoder was invoked; the accumulator after
            \* the first j fields is what object of those j fields returns
            LET entries == ObjectEntries(d)
                invoked == objectRun(d, v).calls
                FirstFields(j) == ObjectD([i \in 1..j |-> entries[i].key],
                                          [i \in 1..j |-> entries[i].decoder])
                acc(j) == objectRun(FirstFields(j), v).result
            IN Flatten([j \in 1..Len(invoked) |->
                    Written(entries[j].decoder, invoked[j].v)
                    \o (LET r == acc(j) IN IF isOk(r) THEN <<r.ok>> ELSE <<>>)])
      [] OTHER -> <<>>

\* the value v after the container c of it has been written
RECURSIVE Overwrite(_, _)
Overwrite(v, c) ==
    IF v.at # <<>> /\ v.at = c.at THEN c
    ELSE [v EXCEPT !.elems = [i \in 1..Len(@) |-> Overwrite(@[i], c)],
                   !.props = [k \in DOMAIN @ |-> Overwrite(@[k], c)]]

\* the value v after the writes of written, in their order
RECURSIVE Store(_, _)
Store(v, written) ==
    IF written = <<>> THEN v
    ELSE Store(IF Head(written).at = <<>> THEN v ELSE Overwrite(v, Head(written)),
               Tail(written))

(***************************************************************************)
(* The checked universe: input values, decoders, and the calls made.       *)
(***************************************************************************)
SeqsUpTo(S, n) == UNION {[1..m -> S] : m \in 0..n}
DistinctSeqsUpTo(S, n) ==
    {q \in SeqsUpTo(S, n) : \A i, j \in 1..Len(q) : q[i] = q[j] => i = j}
PropsOver(K, V) == UNION {[S -> V] : S \in SUBSET K}

\* the value v as it is stored at the place path before the call: v and the
\* containers in it are the containers of that place
RECURSIVE At(_, _)
At(v, path) ==
    CASE v.t = "array" ->
            [v EXCEPT !.at = path,
                      !.elems = [i \in 1..Len(@) |->
                                    At(@[i], Append(path, NumberToString(Num(i - 1))))]]
      [] v.t = "object" ->
            [v EXCEPT !.at = path,
                      !.props = [k \in DOMAIN @ |-> At(@[k], Append(path, k))]]
      [] OTHER -> v
\* v as the argument of the call
Given(v) == At(v, <<"input">>)

InputKeys == {"a", "b", "0"}
PropVals == {Str("x"), Num(1), Undef}
Prims == {Num(1), Num(2), NaN, Str("x"), Str(""), Str("d10"), Str("d11"),
          Bool(TRUE), Bool(FALSE), Undef, Null}
PlainObjects == {Obj(f) : f \in PropsOver(InputKeys, PropVals)}
\* objects of another class, with own properties of their own
DateObjects == {DateObj(10, f) : f \in PropsOver({"a", "b"}, {Str("x")})}
\* { length: 3 }
ArrayLike == Obj([k \in {"length"} |-> Num(3)])
ElemVals == {Str("x"), Num(1), Undef, Hole,
             Obj([k \in {"a", "b"} |-> IF k = "a" THEN Str("x") ELSE Num(1)])}
Arrays == {Arr(q) : q \in SeqsUpTo(ElemVals, MaxLen)}
\* { a: { b: ..., c: ..., extra: ... } }
NestedObjects ==
    {Obj([k \in {"a"} |-> Obj(f)]) :
        f \in PropsOver({"b", "c", "extra"}, {Str("x"), Num(1)})}
Values ==
    {Given(v) : v \in Prims \cup PlainObjects \cup NestedObjects \cup DateObjects
                       \cup Arrays \cup {ArrayLike}}

ResultVals == {ok(Num(1)), ok(Num(2)), ok(Str("x")), failure("e"), failure("f")}
ResultLists == SeqsUpTo(ResultVals, MaxLen)

DeclKeys == {"a", "b", "0", "1"}
FieldDecoders == {StringD, OptionalD(NumberD)}
\* object({a: object({b: number})}) and the like
NestedDecoders ==
    {ObjectD(<<"a">>, <<ObjectD(<<"b">>, <<NumberD>>)>>),
     ObjectD(<<"a">>, <<ObjectD(<<"c">>, <<StringD>>)>>),
     ObjectD(<<"a">>, <<ObjectD(<<"b", "c">>, <<NumberD, StringD>>)>>)}
ObjectDecoders ==
    {ObjectD(ks, ds) : <<ks, ds>> \in
        {p \in DistinctSeqsUpTo(DeclKeys, MaxFields) \X SeqsUpTo(FieldDecoders, MaxFields) :
            Len(p[1]) = Len(p[2])}}
    \cup NestedDecoders

BranchDecoders ==
    {StringD, NumberD,
     ObjectD(<<>>, <<>>),
     ObjectD(<<"a">>, <<StringD>>),
     ObjectD(<<"a", "b">>, <<StringD, OptionalD(NumberD)>>),
     ObjectD(<<"b", "0">>, <<OptionalD(NumberD), OptionalD(StringD)>>)}
\* object({a: object({b: number})}) and object({a: object({c: string})})
DeepBranchDecoders ==
    {ObjectD(<<"a">>, <<ObjectD(<<"b">>, <<NumberD>>)>>),
     ObjectD(<<"a">>, <<ObjectD(<<"c">>, <<StringD>>)>>)}
BranchLists ==
    SeqsUpTo(BranchDecoders, MaxDecoders) \cup SeqsUpTo(DeepBranchDecoders, MaxDecoders)

ElementDecoders == {StringD, NumberD, OptionalD(NumberD), ObjectD(<<"a">>, <<StringD>>)}
WrappedDecoders == {StringD, NumberD, LiteralD(Str("x")), ObjectD(<<"a">>, <<StringD>>)}

\* pipelines whose stages' types fit, as compose's signature demands
StageLists ==
    {<<StringD>>, <<StringD, DateD>>, <<StringD, DateD, HoursD>>,
     <<StringD, DateD, HoursD, EvenD>>, <<NumberD, EvenD>>, <<NumberD, EvenD, EvenD>>,
     <<StringD, StringD>>, <<OptionalD(NumberD)>>}

\* enum declarations: numeric members, string members and both
EnumNames == {"foo", "bar"}
EnumVals == {Num(0), Num(3), Str("x"), Str("bar")}
EnumDecoders ==
    {EnumD(EnumObject(p[1], p[2]), p[1]) : p \in
        {p \in DistinctSeqsUpTo(EnumNames, MaxFields) \X SeqsUpTo(EnumVals, MaxFields) :
            Len(p[1]) = Len(p[2]) /\ Len(p[1]) >= 1}}
EnumInputs ==
    {Given(v) : v \in Prims \cup {Num(0), Num(3), Str("foo"), Str("bar"), Str("0"),
                                  Str("what"), Obj(NoProps), Arr(<<Str("foo")>>)}}

\* inputs of the primitive decoders: the primitives, a big integer,
\* numeric strings, and some objects
ScalarInputs ==
    {Given(v) : v \in Prims \cup {Num(0), Str("1"), Str(" "), BigInt(1), Obj(NoProps),
                                  DateObj(10, NoProps), Arr(<<>>), Arr(<<Num(1)>>)}}
LiteralValues == {Num(0), Num(1), NaN, Str("x"), Str(""), Str("1")}

\* functions given to map, and functions returning a Result given to chain
MapFunctions ==
    {PushInto(Arr(<<>>)), PushInto(Arr(<<Str("x")>>)), SetField(Obj(NoProps), "a"),
     FilterWith(Num(1)), DecodeWith(NumberD)}
ChainFunctions ==
    {DecodeWith(NumberD), DecodeWith(StringD), DecodeWith(OptionalD(NumberD)),
     SequenceStep(ok(Num(1))), SequenceStep(failure("e"))}

NoDecoder == Dec("none", Undef, <<>>, <<>>)

(***************************************************************************)
(* The state: one call of the library, before and after it returns.        *)
(***************************************************************************)
VARIABLES op, decoder, input, result, calls, pc
vars == <<op, decoder, input, result, calls, pc>>

NoResult == [type |-> "none"]

\* the calls checked: an operation, its decoder and its input
Init ==
    /\ \/ op = "sequence" /\ decoder = NoDecoder /\ input \in ResultLists
       \/ op = "object" /\ decoder \in ObjectDecoders /\ input \in Values
       \/ op = "union" /\ decoder \in {UnionD(ds) : ds \in BranchLists}
            /\ input \in Values
       \/ op = "intersection" /\ decoder \in {IntersectionD(ds) : ds \in BranchLists}
            /\ input \in Values
       \/ op = "array" /\ decoder \in {ArrayD(d) : d \in ElementDecoders}
            /\ input \in Values
       \/ op = "optional" /\ decoder \in {OptionalD(d) : d \in WrappedDecoders}
            /\ input \in Values
       \/ op = "compose" /\ decoder \in {ComposeD(ds) : ds \in StageLists}
            /\ input \in Prims
       \/ op = "nullable" /\ decoder \in {NullableD(d) : d \in WrappedDecoders}
            /\ input \in Values
       \/ op = "enumValue" /\ decoder \in EnumDecoders /\ input \in EnumInputs
       \/ op = "number" /\ decoder = NumberD /\ input \in ScalarInputs
       \/ op = "literal" /\ decoder \in {LiteralD(value) : value \in LiteralValues}
            /\ input \in ScalarInputs
       \/ op = "map" /\ decoder \in MapFunctions /\ input \in ResultVals
       \/ op = "chain" /\ decoder \in ChainFunctions /\ input \in ResultVals
    /\ result = NoResult
    /\ calls = <<>>
    /\ pc = "ready"

Return(run) ==
    /\ result' = run.result
    /\ calls' = run.calls
    /\ pc' = "done"
    /\ UNCHANGED <<op, decoder, input>>

\* the call returns, and the input holds what the writes of the call left
ReturnStoring(run) ==
    /\ result' = run.result
    /\ calls' = run.calls
    /\ pc' = "done"
    /\ input' = Store(input, Written(decoder, input))
    /\ UNCHANGED <<op, decoder>>

CallSequence == pc = "ready" /\ op = "sequence" /\ Return(Run(sequence(input), <<>>))
CallObject == pc = "ready" /\ op = "object" /\ ReturnStoring(objectRun(decoder, input))
CallUnion == pc = "ready" /\ op = "union" /\ ReturnStoring(unionRun(decoder.sub, input))
CallIntersection ==
    pc = "ready" /\ op = "intersection" /\ ReturnStoring(intersectionRun(decoder.sub, input))
CallArray == pc = "ready" /\ op = "array" /\ ReturnStoring(arrayRun(decoder.sub[1], input))
CallOptional == pc = "ready" /\ op = "optional" /\ ReturnStoring(optionalRun(decoder.sub[1], input))
CallCompose == pc = "ready" /\ op = "compose" /\ Return(composeRun(decoder.sub, input))
CallNullable == pc = "ready" /\ op = "nullable" /\ Return(nullableRun(decoder.sub[1], input))
CallNumber == pc = "ready" /\ op = "number" /\ ReturnStoring(Run(number(input), <<>>))
CallLiteral ==
    pc = "ready" /\ op = "literal" /\ ReturnStoring(Run(literal(decoder.lit, input), <<>>))
CallEnumValue ==
    pc = "ready" /\ op = "enumValue" /\ ReturnStoring(Run(enumValue(decoder.lit, input), <<>>))

\* map(f)(v) and chain(f)(v): decoder is f, input is v
CallMap == pc = "ready" /\ op = "map" /\ Return(mapRun(decoder, input))
CallChain == pc = "ready" /\ op = "chain" /\ Return(chainRun(decoder, input))

\* the decoders whose output is of the type of their input
SameTypeOps == {"number", "literal", "enumValue", "object", "array", "union", "intersection"}

\* the decoder of a successful call is run again, on the value it decoded
Rerun ==
    /\ pc = "done" /\ op \in SameTypeOps /\ isOk(result)
    /\ input' = result.ok
    /\ result' = Decode(decoder, result.ok)
    /\ pc' = "rerun"
    /\ UNCHANGED <<op, decoder, calls>>

Next ==
    \/ CallSequence
    \/ CallObject
    \/ CallUnion
    \/ CallIntersection
    \/ CallArray
    \/ CallOptional
    \/ CallCompose
    \/ CallNullable
    \/ CallEnumValue
    \/ CallLiteral
    \/ CallNumber
    \/ CallMap
    \/ CallChain
    \/ Rerun

Spec == Init /\ [][Next]_vars

Done(o) == pc = "done" /\ op = o

(***************************************************************************)
(* Helpers of the properties.                                              *)
(***************************************************************************)
Min(S) == CHOOSE m \in S : \A x \in S : m <= x
\* a non-null, non-array value that typeof reports as 'object'
IsObjectKind(v) == v.t = "object"
\* what object(o) hands the decoder of field k
FieldInput(v, k) == IF k \in Keys(v) THEN Get(v, k) ELSE Undef
\* some container in v, or v itself, is a container that exists before the
\* call: the input or one nested in it
RECURSIVE SharesStorage(_)
SharesStorage(v) ==
    \/ v.at # <<>>
    \/ \E i \in 1..Len(v.elems) : SharesStorage(v.elems[i])
    \/ \E k \in Keys(v) : SharesStorage(Get(v, k))
\* the result of the i-th sub-decoder invocation of the call
SubResult(i) ==
    CASE op = "object" ->
            Decode(decoder.sub[PositionOf(decoder.keys, calls[i].key)], calls[i].v)
      [] op = "array" -> Decode(decoder.sub[1], calls[i].v)
      [] op = "intersection" -> Decode(decoder.sub[calls[i].idx], calls[i].v)
\* the operations that build containers
ContainerOps == {"object", "array", "union", "intersection"}
\* the decoders built of primitives, literal, enumValue, object, array,
\* union and intersection only
RECURSIVE IsPlainComposite(_)
IsPlainComposite(d) ==
    \/ d.t \in {"string", "number", "boolean", "literal", "enum"}
    \/ /\ d.t \in {"object", "array", "union", "intersection"}
       /\ \A i \in 1..Len(d.sub) : IsPlainComposite(d.sub[i])
\* an enum all of whose members are numeric
IsNumericEnum(d) == \A k \in Range(d.keys) : TypeOf(Get(d.lit, k)) = "number"

(***************************************************************************)
(* C1: sequence returns Ok of all the success values in list order iff     *)
(* every element is Ok (Ok of the empty list for the empty list), and      *)
(* otherwise the leftmost Failure of the list, unchanged, whatever follows *)
(* it.                                                                     *)
(***************************************************************************)
C1_SequenceFirstFailure ==
    Done("sequence") =>
        LET Failed == {i \in 1..Len(input) : isFailure(input[i])}
        IN /\ isOk(result) <=> Failed = {}
           /\ Failed = {} =>
                result = ok(Arr([i \in 1..Len(input) |-> input[i].ok]))
           /\ Failed # {} => result = input[Min(Failed)]

\* an Ok, then a Failure, then another Failure: the first Failure is returned
C1_Witness ==
    /\ Done("sequence")
    /\ input = <<ok(Num(1)), failure("e"), failure("f")>>
    /\ result = failure("e")

(***************************************************************************)
(* C2: on an object input on which every declared field's decoder          *)
(* succeeds, object(fields) returns Ok of an object that has no property   *)
(* but the declared field names, each holding the value its decoder        *)
(* returned: the other properties of the input are dropped.                *)
(***************************************************************************)
C2_ObjectStrips ==
    (/\ Done("object")
     /\ IsObjectKind(input)
     /\ \A i \in 1..Len(decoder.keys) :
            isOk(Decode(decoder.sub[i], FieldInput(input, decoder.keys[i]))))
    => /\ isOk(result)
       /\ result.ok.t = "object" /\ result.ok.cls = "Object"
       /\ Keys(result.ok) \subseteq Range(decoder.keys)
       /\ \A i \in 1..Len(decoder.keys) :
            /\ decoder.keys[i] \in Keys(result.ok)
            /\ Get(result.ok, decoder.keys[i])
                 = Decode(decoder.sub[i], FieldInput(input, decoder.keys[i])).ok

\* object({a: string}) on {a: 'x', b: 1}: b is dropped
C2_Witness ==
    /\ Done("object")
    /\ decoder = ObjectD(<<"a">>, <<StringD>>)
    /\ input = Given(Obj([k \in {"a", "b"} |-> IF k = "a" THEN Str("x") ELSE Num(1)]))
    /\ result = ok(Obj([k \in {"a"} |-> Str("x")]))

(***************************************************************************)
(* C3 as stated: object(fields) evaluates the field decoders in the order  *)
(* the fields were declared and is fail-fast: the result is the Failure of *)
(* the first failing field in declaration order, and the decoder of no     *)
(* field declared after it is invoked.                                     *)
(***************************************************************************)
C3_DeclarationOrder ==
    (Done("object") /\ IsObjectKind(input)) =>
        LET Failing == {i \in 1..Len(decoder.keys) :
                isFailure(Decode(decoder.sub[i], FieldInput(input, decoder.keys[i])))}
        IN Failing # {} =>
            /\ result = Decode(decoder.sub[Min(Failing)],
                               FieldInput(input, decoder.keys[Min(Failing)]))
            /\ \A c \in 1..Len(calls) :
                    PositionOf(decoder.keys, calls[c].key) <= Min(Failing)

\* whether field k1 comes before field k2 in Object.entries of the mapping
EntriesBefore(k1, k2) ==
    \/ IsIndexKey(k1) /\ IsIndexKey(k2) /\ KeyIndex(k1) < KeyIndex(k2)
    \/ IsIndexKey(k1) /\ ~IsIndexKey(k2)
    \/ /\ ~IsIndexKey(k1) /\ ~IsIndexKey(k2)
       /\ PositionOf(decoder.keys, k1) < PositionOf(decoder.keys, k2)

(***************************************************************************)
(* C3 amended: object(fields) evaluates the field decoders in the order of *)
(* Object.entries (the integer-like field names in ascending numeric       *)
(* order, then the other names in declaration order) and is fail-fast: the *)
(* decoders invoked are exactly those of the fields up to the first        *)
(* failing one in that order, each once and in that order, and the result  *)
(* is that field's Failure.                                                *)
(***************************************************************************)
C3_EntriesOrderFailFast ==
    (Done("object") /\ IsObjectKind(input)) =>
        LET Declared == Range(decoder.keys)
            Fails(k) == isFailure(Decode(decoder.sub[PositionOf(decoder.keys, k)],
                                         FieldInput(input, k)))
            Failing == {k \in Declared : Fails(k)}
            \* the fields reached: those no failing field comes before
            Reached == {k \in Declared : \A f \in Failing : ~EntriesBefore(f, k)}
        IN /\ {calls[c].key : c \in 1..Len(calls)} = Reached
           /\ Len(calls) = Cardinality(Reached)
           /\ \A c, e \in 1..Len(calls) :
                c < e => EntriesBefore(calls[c].key, calls[e].key)
           /\ \A c \in 1..Len(calls) : calls[c].v = FieldInput(input, calls[c].key)
           /\ \A f \in Failing :
                f \in Reached =>
                    result = Decode(decoder.sub[PositionOf(decoder.keys, f)],
                                    FieldInput(input, f))

\* object({a: string, 0: optional(number)}) on {0: 'x'}: field 0 is decoded
\* first and fails, and the decoder of a is never invoked
C3_Witness ==
    /\ Done("object")
    /\ decoder = ObjectD(<<"a", "0">>, <<StringD, OptionalD(NumberD)>>)
    /\ input = Given(Obj([k \in {"0"} |-> Str("x")]))
    /\ result = failure("Not a number")
    /\ calls = <<[key |-> "0", v |-> Str("x")]>>

(***************************************************************************)
(* C4: on null, an array, or a value typeof does not report as 'object',   *)
(* object(fields) returns Failure("Not an object") and invokes no field    *)
(* decoder, whatever the mapping (the empty one included).                 *)
(***************************************************************************)
C4_NotAnObject ==
    (/\ Done("object")
     /\ \/ input = Null
        \/ IsArray(input)
        \/ TypeOf(input) \in {"number", "string", "boolean", "undefined"})
    => /\ result = failure("Not an object")
       /\ calls = <<>>

\* an array with elements, against a mapping that has fields
C4_Witness ==
    /\ Done("object")
    /\ input = Given(Arr(<<Num(1), Str("x")>>))
    /\ decoder.keys # <<>>
    /\ result = failure("Not an object")

(***************************************************************************)
(* C5: union(decoders) invokes the candidates in list order on the same    *)
(* input and returns exactly the result of the first one that succeeds,    *)
(* invoking none after it; when none succeeds it returns                   *)
(* Failure("Value is not one of type").  So an input matching a first      *)
(* candidate that is an object decoder comes back with that candidate's    *)
(* declared fields only, whatever fields of later candidates it carries.   *)
(***************************************************************************)
C5_UnionFirstMatch ==
    Done("union") =>
        LET ds == decoder.sub
            Matching == {i \in 1..Len(ds) : isOk(Decode(ds[i], input))}
            last == IF Matching = {} THEN Len(ds) ELSE Min(Matching)
        IN /\ calls = [i \in 1..last |-> [idx |-> i, v |-> input]]
           /\ Matching = {} => result = failure("Value is not one of type")
           /\ Matching # {} =>
                /\ result = Decode(ds[Min(Matching)], input)
                /\ ds[Min(Matching)].t = "object" =>
                        Keys(result.ok) \subseteq Range(ds[Min(Matching)].keys)

\* union([object({a: string}), object({b: ..., 0: ...})]) on {a: 'x', b: 1}:
\* the first candidate answers, b is dropped, the second is never invoked
C5_Witness ==
    /\ Done("union")
    /\ decoder.sub = <<ObjectD(<<"a">>, <<StringD>>),
                       ObjectD(<<"b", "0">>, <<OptionalD(NumberD), OptionalD(StringD)>>)>>
    /\ input = Given(Obj([k \in {"a", "b"} |-> IF k = "a" THEN Str("x") ELSE Num(1)]))
    /\ result = ok(Obj([k \in {"a"} |-> Str("x")]))
    /\ Len(calls) = 1

(***************************************************************************)
(* C6: intersection(decoders) runs every decoder of the list on the same   *)
(* original input and succeeds iff all of them succeed; when one fails the *)
(* result is the Failure of the first failing decoder in list order.  So   *)
(* intersection([string, number]) fails on every input.                    *)
(***************************************************************************)
C6_IntersectionAll ==
    Done("intersection") =>
        LET ds == decoder.sub
            Failing == {i \in 1..Len(ds) : isFailure(Decode(ds[i], input))}
        IN /\ calls = [i \in 1..Len(ds) |-> [idx |-> i, v |-> input]]
           /\ isOk(result) <=> Failing = {}
           /\ Failing # {} => result = Decode(ds[Min(Failing)], input)
           /\ ds = <<StringD, NumberD>> => isFailure(result)

\* the first decoder fails and the second is run all the same
C6_Witness ==
    /\ Done("intersection")
    /\ decoder.sub = <<StringD, NumberD>>
    /\ input = Num(1)
    /\ result = failure("Not a string")
    /\ Len(calls) = 2

(***************************************************************************)
(* C7: when an intersection of object decoders succeeds on an object       *)
(* input, the result is an object whose keys are exactly the field names   *)
(* that are in some branch's decoded output and are own properties of the  *)
(* input: the input's properties that no branch declares are stripped.     *)
(***************************************************************************)
C7_IntersectionKeys ==
    (/\ Done("intersection")
     /\ decoder.sub # <<>>
     /\ \A i \in 1..Len(decoder.sub) : decoder.sub[i].t = "object"
     /\ IsObjectKind(input)
     /\ isOk(result))
    => Keys(result.ok) =
         {k \in Keys(input) :
            \E i \in 1..Len(decoder.sub) : k \in Keys(Decode(decoder.sub[i], input).ok)}

\* the same, for the inputs Object.prototype.toString reports as
\* [object Object]
C7_PlainIntersectionKeys ==
    (/\ Done("intersection")
     /\ decoder.sub # <<>>
     /\ \A i \in 1..Len(decoder.sub) : decoder.sub[i].t = "object"
     /\ IsObjectKind(input) /\ input.cls = "Object"
     /\ isOk(result))
    => /\ result.ok.t = "object" /\ result.ok.cls = "Object"
       /\ Keys(result.ok) =
            {k \in Keys(input) :
                \E i \in 1..Len(decoder.sub) : k \in Keys(Decode(decoder.sub[i], input).ok)}

(***************************************************************************)
(* C8: on an array, array(elementDecoder) applies the element decoder to   *)
(* every element and returns Ok of the decoded elements in index order,    *)
(* as many as the input has, when all succeed; otherwise the Failure of    *)
(* the failing element of lowest index.  On anything else, an array-like   *)
(* object included, it returns Failure("Not an array").                    *)
(***************************************************************************)
C8_ArrayEveryIndex ==
    Done("array") =>
        IF IsArray(input)
        THEN LET n == Len(input.elems)
                 \* the elements: the slots of the array that are not holes
                 Elements == {i \in 1..n : ~IsHole(input.elems[i])}
                 Failing == {i \in Elements :
                                isFailure(Decode(decoder.sub[1], input.elems[i]))}
             IN /\ Failing = {} =>
                    /\ isOk(result)
                    /\ Len(result.ok.elems) = n
                    /\ \A i \in Elements :
                         result.ok.elems[i] = Decode(decoder.sub[1], input.elems[i]).ok
                /\ Failing # {} =>
                    result = Decode(decoder.sub[1], input.elems[Min(Failing)])
        ELSE result = failure("Not an array")

\* the same, for the arrays that have no hole
C8_DenseArray ==
    (Done("array") /\ (IsArray(input) => \A i \in 1..Len(input.elems) : ~IsHole(input.elems[i])))
    => IF IsArray(input)
       THEN LET n == Len(input.elems)
                Failing == {i \in 1..n : isFailure(Decode(decoder.sub[1], input.elems[i]))}
            IN /\ calls = [i \in 1..n |-> [idx |-> i, v |-> input.elems[i]]]
               /\ Failing = {} =>
                    result = ok(Arr([i \in 1..n |-> Decode(decoder.sub[1], input.elems[i]).ok]))
               /\ Failing # {} => result = Decode(decoder.sub[1], input.elems[Min(Failing)])
       ELSE result = failure("Not an array") /\ calls = <<>>

(***************************************************************************)
(* C9: compose(d1, ..., dn) runs its stages in order, each on the Ok value *)
(* of the one before it: stage k is invoked only if stages 1..k-1 all      *)
(* succeeded, the first failing stage's Failure is the result and no later *)
(* stage is invoked, and when every stage succeeds the result is the last  *)
(* stage's Ok.                                                             *)
(***************************************************************************)
C9_ComposeFailFast ==
    Done("compose") =>
        LET stages == decoder.sub
            \* what stage k returned, for the stages invoked
            Out(k) == Decode(stages[k], calls[k].v)
        IN /\ Len(calls) >= 1 /\ Len(calls) <= Len(stages)
           /\ \A k \in 1..Len(calls) : calls[k].idx = k
           /\ calls[1].v = input
           /\ \A k \in 2..Len(calls) :
                isOk(Out(k - 1)) /\ calls[k].v = Out(k - 1).ok
           /\ result = Out(Len(calls))
           /\ Len(calls) < Len(stages) => isFailure(result)

\* compose(string, dateDecoder, hoursDecoder) on 'x': dateDecoder is
\* invoked once, with 'x', and hoursDecoder is not
C9_Witness ==
    /\ Done("compose")
    /\ decoder.sub = <<StringD, DateD, HoursD>>
    /\ input = Str("x")
    /\ calls = <<[idx |-> 1, v |-> Str("x")], [idx |-> 2, v |-> Str("x")]>>
    /\ result = failure("Not a date like object")

(***************************************************************************)
(* C10: optional(d)(undefined) is Ok(undefined) and d is not invoked; on   *)
(* any other input x, null included, optional(d)(x) is exactly d(x).       *)
(***************************************************************************)
C10_Optional ==
    Done("optional") =>
        IF input = Undef
        THEN result = ok(Undef) /\ calls = <<>>
        ELSE /\ result = Decode(decoder.sub[1], input)
             /\ calls = <<[idx |-> 1, v |-> input]>>

\* optional(number)(null) is number(null): a Failure
C10_Witness ==
    /\ Done("optional")
    /\ decoder.sub[1] = NumberD
    /\ input = Null
    /\ result = failure("Not a number")

(***************************************************************************)
(* C11: nullable(d)(null) is Ok(null) and d is not invoked; on any other   *)
(* input x, undefined included, nullable(d)(x) is exactly d(x), so         *)
(* nullable(number)(undefined) is Failure("Not a number").                 *)
(***************************************************************************)
C11_Nullable ==
    Done("nullable") =>
        IF input = Null
        THEN result = ok(Null) /\ calls = <<>>
        ELSE /\ result = Decode(decoder.sub[1], input)
             /\ calls = <<[idx |-> 1, v |-> input]>>

\* nullable(number)(undefined) is number(undefined): a Failure
C11_Witness ==
    /\ Done("nullable")
    /\ decoder.sub[1] = NumberD
    /\ input = Undef
    /\ result = failure("Not a number")

(***************************************************************************)
(* C12: for an enum object (member names mapping to numeric or string      *)
(* values, with the value-to-name entries of the numeric members),         *)
(* enumValue resolves a member name to Ok of that member's value, resolves *)
(* a member's numeric value to Ok of that same value, and returns          *)
(* Failure("Not an enum value") when the input is neither a number nor a   *)
(* string or when the lookup yields nothing.                               *)
(***************************************************************************)
C12_EnumValue ==
    Done("enumValue") =>
        LET e == decoder.lit
            names == Range(decoder.keys)
        IN /\ (TypeOf(input) = "string" /\ input.s \in names)
                => result = ok(Get(e, input.s))
           /\ (TypeOf(input) = "number" /\ \E k \in names : Get(e, k) = input)
                => result = ok(input)
           /\ (TypeOf(input) \notin {"number", "string"} \/ IsNullish(Index(e, input)))
                => result = failure("Not an enum value")

\* the same, for the enums all of whose members are numeric
C12_NumericEnum ==
    (Done("enumValue") /\ \A k \in Range(decoder.keys) : TypeOf(Get(decoder.lit, k)) = "number")
    => LET e == decoder.lit
           names == Range(decoder.keys)
       IN /\ (TypeOf(input) = "string" /\ input.s \in names)
               => result = ok(Get(e, input.s))
          /\ (TypeOf(input) = "number" /\ \E k \in names : Get(e, k) = input)
               => result = ok(input)
          /\ (TypeOf(input) \notin {"number", "string"} \/ IsNullish(Index(e, input)))
               => result = failure("Not an enum value")

(***************************************************************************)
(* C13: literal(value)(input) is Ok(value) iff the input is a number or a  *)
(* string of the same type and the same value as the captured constant,    *)
(* nothing being converted (literal(1) rejects '1', literal('') rejects    *)
(* null and ' '); in every other case, literal(NaN) on NaN included, it is *)
(* Failure("Does not match literal value").                                *)
(***************************************************************************)
C13_Literal ==
    Done("literal") =>
        LET value == decoder.lit
            Matches == /\ input.t \in {"number", "string"}
                       /\ input.t = value.t
                       /\ input.n = value.n /\ input.s = value.s
                       /\ ~(input.t = "number" /\ input.s = "NaN")
        IN /\ result \in {ok(value), failure("Does not match literal value")}
           /\ result = ok(value) <=> Matches

\* literal(1)('1') fails: the string is not converted
C13_Witness ==
    /\ Done("literal")
    /\ decoder.lit = Num(1)
    /\ input = Str("1")
    /\ result = failure("Does not match literal value")

(***************************************************************************)
(* C14: number(input) is Ok(input), unchanged, iff typeof input is         *)
(* 'number' and the input is not NaN; on every other input (NaN, numeric   *)
(* strings, null, undefined, objects, big integers) it is                  *)
(* Failure("Not a number"), and it never throws.                           *)
(***************************************************************************)
C14_Number ==
    Done("number") =>
        IF input.t = "number" /\ input # NaN
        THEN result = ok(input)
        ELSE result = failure("Not a number")

\* number(BigInt(1)) is a Failure, not an exception
C14_Witness ==
    /\ Done("number")
    /\ input = BigInt(1)
    /\ result = failure("Not a number")

(***************************************************************************)
(* C15: idempotence.  For a decoder built of primitives, literal,          *)
(* enumValue, object, array, union and intersection, and an input x with   *)
(* decoder(x) = Ok(y), running the decoder again on y yields Ok(y).        *)
(***************************************************************************)
C15_Idempotence ==
    (pc = "rerun" /\ IsPlainComposite(decoder)) => result = ok(input)

\* the same, but for the enums that have a string member
C15_IdempotentButStringEnums ==
    (/\ pc = "rerun" /\ IsPlainComposite(decoder)
     /\ op = "enumValue" => IsNumericEnum(decoder))
    => result = ok(input)

\* the same when fields and branches may be optional, but for unions
C15_IdempotentWithOptional ==
    (/\ pc = "rerun" /\ op # "union"
     /\ op = "enumValue" => IsNumericEnum(decoder))
    => result = ok(input)

(***************************************************************************)
(* C16: the value in a successful result of an object, array, union or     *)
(* intersection decoder is allocated during the call: no container         *)
(* reachable from it is the input or a container nested in the input.      *)
(***************************************************************************)
C16_FreshResult ==
    (/\ pc = "done" /\ op \in ContainerOps /\ isOk(result)
     /\ op \in {"union", "intersection"} => decoder.sub # <<>>)
    => ~SharesStorage(result.ok)

\* the same, for object, array and union over object and primitive decoders
C16_FreshButIntersection ==
    (pc = "done" /\ op \in ContainerOps \ {"intersection"} /\ isOk(result))
    => ~SharesStorage(result.ok)

C18_MapChain ==
    (pc = "done" /\ op \in {"map", "chain"}) =>
        IF isFailure(input)
        THEN result = input /\ calls = <<>>
        ELSE /\ calls = <<[idx |-> 1, v |-> input.ok]>>
             /\ op = "map" => result = ok(Apply(decoder, input.ok))
             /\ op = "chain" => result = Apply(decoder, input.ok)

\* chain(number)(Ok('x')) is number('x'), a Failure, not an Ok of it
C18_Witness ==
    /\ Done("chain")
    /\ decoder = DecodeWith(NumberD)
    /\ input = ok(Str("x"))
    /\ result = failure("Not a number")

C20_InputUnchanged ==
    [][(pc = "ready" /\ op \in {"object", "array", "union", "intersection", "optional",
                                "number", "literal", "enumValue"})
       => /\ input' = input
          /\ \A c \in Range(Written(decoder, input)) : c.at = <<>>]_vars

\* object({a: string, b: optional(number)}) on {a: 'x', b: 'x'}: a is
\* written, to the accumulator, before b fails, and the input is as it was
C20_Witness ==
    /\ Done("object")
    /\ decoder = ObjectD(<<"a", "b">>, <<StringD, OptionalD(NumberD)>>)
    /\ input = Given(Obj([k \in {"a", "b"} |-> Str("x")]))
    /\ result = failure("Not a number")
    /\ Written(decoder, input) = <<Obj([k \in {"a"} |-> Str("x")])>>

(***************************************************************************)
(* C21: when object(fields) succeeds, the own keys of the result are       *)
(* exactly the declared field names, all of them: a declared field that is *)
(* not an own property of the input is decoded from undefined, and the     *)
(* result has its key all the same, with what the decoder made of          *)
(* undefined (undefined, for optional).                                    *)
(***************************************************************************)
C21_DeclaredKeys ==
    (Done("object") /\ isOk(result)) =>
        /\ Keys(result.ok) = Range(decoder.keys)
        /\ \A i \in 1..Len(decoder.keys) :
              decoder.keys[i] \notin Keys(input) =>
                /\ \E j \in 1..Len(calls) :
                      calls[j] = [key |-> decoder.keys[i], v |-> Undef]
                /\ isOk(Decode(decoder.sub[i], Undef))
                /\ Get(result.ok, decoder.keys[i]) = Decode(decoder.sub[i], Undef).ok
                /\ decoder.sub[i].t = "optional" => Get(result.ok, decoder.keys[i]) = Undef

\* object({a: string, b: optional(number)}) on {a: 'x'} is
\* Ok({a: 'x', b: undefined})
C21_Witness ==
    /\ Done("object")
    /\ decoder = ObjectD(<<"a", "b">>, <<StringD, OptionalD(NumberD)>>)
    /\ input = Given(Obj([k \in {"a"} |-> Str("x")]))
    /\ result = ok(Obj([k \in {"a", "b"} |-> IF k = "a" THEN Str("x") ELSE Undef]))

====
